---- MODULE Spec2Model ----
(***************************************************************************)
(* The Editor component of blogs-app/components/editor/index.tsx as a     *)
(* state machine.                                                          *)
(*                                                                         *)
(* React state is modelled as it behaves: a state variable holds the value *)
(* the next render will read, and every handler reads the values captured *)
(* by the render that created it (the record r).  A handler that awaits    *)
(* (handleImageUpload) keeps the values of the render it was started from. *)
(* The document engine (@tiptap) is not part of the sources: its           *)
(* operations are modelled from the specification (sections 4.2 - 4.4).    *)
(***************************************************************************)
EXTENDS Naturals, Sequences, FiniteSets

(***************************************************************************)
(* Bounds of the model.                                                    *)
(***************************************************************************)
MaxUploads == 2       \* files the user selects for upload during a session
MaxDocImages == 1     \* image nodes a document may hold
MaxTyped == 1         \* characters the user types into the document

(***************************************************************************)
(* Values.                                                                 *)
(***************************************************************************)
\* The files a user can pick; the gallery service answers the POST of file f
\* with the asset {src: UploadSrc[f]}.
Files == 1..MaxUploads
UploadSrc == <<"a.png", "b.png", "c.png", "d.png">>
Asset(f) == [src |-> UploadSrc[f]]

\* What GET /api/images may answer (data.images).
RemoteGalleries == {<<[src |-> "g.png"]>>}

Titles == {"X"}
SeoResults == {[meta |-> "m2", slug |-> "y", tags |-> "t2"]}
Thumbnails == {"File(t.png)"}
AltTexts == {"alt"}

(***************************************************************************)
(* The document model (specification 3, 4.1): a sequence of block nodes.   *)
(* A text block holds one entry per character: the href of the link mark   *)
(* on it, "" for none.                                                      *)
(***************************************************************************)
Paragraph(text) == [type |-> "paragraph", text |-> text, src |-> "", alt |-> ""]
CodeBlock(text) == [type |-> "codeBlock", text |-> text, src |-> "", alt |-> ""]
Image(src, alt) == [type |-> "image", text |-> <<>>, src |-> src, alt |-> alt]

EmptyDoc == <<Paragraph(<<>>)>>

\* Markup tokens of the serialized form.
Tok(tag, attr, alt) == [tag |-> tag, attr |-> attr, alt |-> alt]

NodeSize(b) == IF b.type = "image" THEN 1 ELSE Len(b.text) + 2

RECURSIVE DocSize(_)
DocSize(d) == IF d = <<>> THEN 0 ELSE NodeSize(Head(d)) + DocSize(Tail(d))

\* Position just before block k.
BlockStart(d, k) == DocSize(SubSeq(d, 1, k - 1))

\* doc.resolve(pos).parent: the index of the text block whose content holds
\* pos, 0 when pos lies between blocks.
ResolveBlock(d, pos) ==
  LET inside == {k \in 1..Len(d) : /\ d[k].type /= "image"
                                   /\ BlockStart(d, k) + 1 <= pos
                                   /\ pos <= BlockStart(d, k) + 1 + Len(d[k].text)}
  IN IF inside = {} THEN 0 ELSE CHOOSE k \in inside : TRUE

RECURSIVE SerializeInline(_, _)
SerializeInline(text, open) ==
  IF text = <<>>
  THEN IF open = "" THEN <<>> ELSE <<Tok("/a", "", "")>>
  ELSE LET h == Head(text)
           switch == IF h = open THEN <<>>
                     ELSE (IF open = "" THEN <<>> ELSE <<Tok("/a", "", "")>>)
                          \o (IF h = "" THEN <<>> ELSE <<Tok("a", h, "")>>)
       IN switch \o <<Tok("x", "", "")>> \o SerializeInline(Tail(text), h)

SerializeBlock(b) ==
  CASE b.type = "image" -> <<Tok("img", b.src, b.alt)>>
    [] b.type = "codeBlock" ->
         <<Tok("pre", "", "")>> \o SerializeInline(b.text, "") \o <<Tok("/pre", "", "")>>
    [] OTHER ->
         <<Tok("p", "", "")>> \o SerializeInline(b.text, "") \o <<Tok("/p", "", "")>>

\* editor.getHTML()
RECURSIVE getHTML(_)
getHTML(d) == IF d = <<>> THEN <<>> ELSE SerializeBlock(Head(d)) \o getHTML(Tail(d))

AppendChar(d, h) ==
  [d EXCEPT ![Len(d)] = [@ EXCEPT !.text = Append(@, h)]]

RECURSIVE ParseTokens(_, _, _)
ParseTokens(toks, d, open) ==
  IF toks = <<>> THEN d
  ELSE LET t == Head(toks)
           rest == Tail(toks)
       IN CASE t.tag = "p" -> ParseTokens(rest, Append(d, Paragraph(<<>>)), "")
            [] t.tag = "pre" -> ParseTokens(rest, Append(d, CodeBlock(<<>>)), "")
            [] t.tag = "img" -> ParseTokens(rest, Append(d, Image(t.attr, t.alt)), "")
            [] t.tag = "a" -> ParseTokens(rest, d, t.attr)
            [] t.tag = "/a" -> ParseTokens(rest, d, "")
            [] t.tag = "x" -> ParseTokens(rest, AppendChar(d, open), open)
            [] OTHER -> ParseTokens(rest, d, "")

\* editor.commands.setContent(html): the Document an html string stands for;
\* the empty string gives the empty Document (one empty paragraph).
setContent(html) ==
  LET d == ParseTokens(html, <<>>, "") IN IF d = <<>> THEN EmptyDoc ELSE d

\* The caret a Document gets when its content is replaced: the end of it.
SelectionAtEnd(d) ==
  LET p == IF d[Len(d)].type = "image" THEN DocSize(d) ELSE DocSize(d) - 1
  IN [from |-> p, to |-> p]

(***************************************************************************)
(* getMarkRange(doc.resolve(pos), link) (specification 4.3): the maximal   *)
(* run of characters carrying the same link around pos, <<>> when pos is   *)
(* not strictly inside such a run.                                         *)
(***************************************************************************)
getMarkRange(d, pos) ==
  LET k == ResolveBlock(d, pos) IN
  IF k = 0 THEN <<>>
  ELSE LET text == d[k].text
           start == BlockStart(d, k) + 1
           off == pos - start
       IN IF off = 0 \/ off = Len(text) THEN <<>>
          ELSE IF text[off] = "" \/ text[off] /= text[off + 1] THEN <<>>
          ELSE LET h == text[off]
                   lo == CHOOSE a \in 0..off :
                           /\ \A i \in (a + 1)..off : text[i] = h
                           /\ (a = 0 \/ text[a] /= h)
                   hi == CHOOSE b \in off..Len(text) :
                           /\ \A i \in (off + 1)..b : text[i] = h
                           /\ (b = Len(text) \/ text[b + 1] /= h)
               IN <<[from |-> start + lo, to |-> start + hi]>>

(***************************************************************************)
(* The command engine (specification 4.2, 4.4): a chain of commands runs   *)
(* against the editor state [doc, sel] as one transaction.                 *)
(***************************************************************************)
Cmd(name, src, alt) == [name |-> name, src |-> src, alt |-> alt]

Min(a, b) == IF a <= b THEN a ELSE b
Max(a, b) == IF a >= b THEN a ELSE b

\* The editor state after a node was inserted as block idx of nd: the caret
\* stands right after it.
Inserted(nd, idx) ==
  [ok |-> TRUE, doc |-> nd,
   sel |-> [from |-> BlockStart(nd, idx) + 1, to |-> BlockStart(nd, idx) + 1]]

\* The selection lies between blocks: the node goes after the idx blocks
\* that end before it.
InsertBetween(d, idx, node) ==
  Inserted(SubSeq(d, 1, idx) \o <<node>> \o SubSeq(d, idx + 1, Len(d)), idx + 1)

\* The selection lies in paragraph k, from offset offF to offset offT of its
\* text: the paragraph is split around the node, the selected text goes.
InsertInParagraph(d, k, offF, offT, node) ==
  Inserted(SubSeq(d, 1, k - 1)
           \o <<Paragraph(SubSeq(d[k].text, 1, offF)), node,
                Paragraph(SubSeq(d[k].text, offT + 1, Len(d[k].text)))>>
           \o SubSeq(d, k + 1, Len(d)),
           k + 1)

SetImageIn(st, k, node) ==
  IF k = 0
  THEN InsertBetween(st.doc,
         Cardinality({j \in 1..Len(st.doc) :
                        BlockStart(st.doc, j) + NodeSize(st.doc[j]) <= st.sel.from}),
         node)
  ELSE IF st.doc[k].type = "codeBlock"
  THEN [ok |-> FALSE, doc |-> st.doc, sel |-> st.sel]
  ELSE InsertInParagraph(st.doc, k,
         st.sel.from - (BlockStart(st.doc, k) + 1),
         Min(Max(st.sel.to, st.sel.from) - (BlockStart(st.doc, k) + 1),
             Len(st.doc[k].text)),
         node)

\* chain().setImage({src, alt}): the image node replaces the selection.  A
\* code block admits text only: inserting into it violates the schema.
SetImage(st, src, alt) ==
  SetImageIn(st, ResolveBlock(st.doc, st.sel.from), Image(src, alt))

ApplyCommand(st, cmd) ==
  CASE cmd.name = "focus" -> [ok |-> TRUE, doc |-> st.doc, sel |-> st.sel]
    [] cmd.name = "setImage" -> SetImage(st, cmd.src, cmd.alt)
    [] OTHER -> [ok |-> FALSE, doc |-> st.doc, sel |-> st.sel]

RECURSIVE ApplyAll(_, _)
ApplyAll(st, cmds) ==
  IF cmds = <<>> THEN [ok |-> TRUE, doc |-> st.doc, sel |-> st.sel]
  ELSE LET res == ApplyCommand(st, Head(cmds))
       IN IF res.ok THEN ApplyAll(res, Tail(cmds)) ELSE res

\* chain()...run(): all commands or none; versions is the number of new
\* Document versions the run produced.
RunChain(st, cmds) ==
  LET res == ApplyAll(st, cmds)
  IN IF res.ok THEN [doc |-> res.doc, sel |-> res.sel, versions |-> 1]
     ELSE [doc |-> st.doc, sel |-> st.sel, versions |-> 0]

\* commands.setTextSelection(range): positions are clamped to the document.
setTextSelection(d, range) ==
  [from |-> Min(range.from, DocSize(d)), to |-> Min(range.to, DocSize(d))]

\* A character typed at the caret; inside a link it carries the link.
InsertText(d, pos) ==
  LET k == ResolveBlock(d, pos)
      off == pos - (BlockStart(d, k) + 1)
      text == d[k].text
      range == getMarkRange(d, pos)
      h == IF range = <<>> THEN "" ELSE text[off]
  IN [d EXCEPT ![k] = [@ EXCEPT !.text =
        SubSeq(text, 1, off) \o <<h>> \o SubSeq(text, off + 1, Len(text))]]

ImageCount(d) == Cardinality({k \in 1..Len(d) : d[k].type = "image"})

(***************************************************************************)
(* The post draft and the saved posts a parent may pass as initialValue.   *)
(***************************************************************************)
EmptyPost ==
  [title |-> "", content |-> <<>>, meta |-> "", tags |-> "", slug |-> "", thumbnail |-> ""]

LinkDoc == <<Paragraph(<<"", "", "u", "u", "u", "u", "">>)>>

InitialValues ==
  { [title |-> "Hi", content |-> getHTML(LinkDoc),
     meta |-> "m", tags |-> "t", slug |-> "s", thumbnail |-> "remote.png"],
    [title |-> "Yo",
     content |-> <<Tok("pre", "", ""), Tok("x", "", ""), Tok("/pre", "", ""),
                   Tok("p", "", ""), Tok("a", "v", ""), Tok("x", "", ""), Tok("/a", "", ""),
                   Tok("a", "v", ""), Tok("x", "", ""), Tok("/a", "", ""), Tok("/p", "", "")>>,
     meta |-> "n", tags |-> "", slug |-> "yo", thumbnail |-> ""] }

SeoOf(p) == [meta |-> p.meta, slug |-> p.slug, tags |-> p.tags]

(***************************************************************************)
(* State.                                                                  *)
(***************************************************************************)
VARIABLES
  selectionRange,   \* useState<Range>: <<>> or <<[from, to]>>
  uploading,        \* useState<boolean>
  images,           \* useState<{src}[]>: the cached asset list
  seoInitialValue,  \* useState<SeoResult>: <<>> or <<[meta, slug, tags]>>
  post,             \* useState<FinalPost>: the post draft
  r,                \* what the last render read: the values its handlers hold
  doc,              \* the editor's Document
  textSel,          \* the editor's text selection [from, to]
  fetch,            \* GET /api/images: "inflight", "ok" or "failed"
  uploads,          \* POST /api/images, in the order started
  out,              \* the onSubmit calls the last step made
  tx,               \* the chain the last step ran and the Document versions it made
  lastChange,       \* what last assigned images: "none", "fetch" or "upload"
  hydrated,         \* a render has seen both the editor and the initialValue
  edited,           \* the user changed the draft or the Document since
  typed,            \* characters typed so far
  rangeSet,         \* setSelectionRange was called (with a new object) since the last render
  rangeStale        \* the Document changed since the range in selectionRange was computed

vars == <<selectionRange, uploading, images, seoInitialValue, post, r, doc, textSel,
          fetch, uploads, out, tx, lastChange, hydrated, edited, typed,
          rangeSet, rangeStale>>

NoTx == [chain |-> "none", versions |-> 0]
OneTx == [chain |-> "none", versions |-> 1]

Snapshot(iv) ==
  [post |-> post, images |-> images, editor |-> TRUE,
   selectionRange |-> selectionRange, initialValue |-> iv]

\* The first render (editor still null) and its effects: fetchImages() is
\* called, the hydration effect runs without an editor, useEditor creates
\* the instance.
Init ==
  \E iv \in {<<>>} \cup {<<v>> : v \in InitialValues} :
    /\ r = [post |-> EmptyPost, images |-> <<>>, editor |-> FALSE,
            selectionRange |-> <<>>, initialValue |-> iv]
    /\ post = IF iv = <<>> THEN EmptyPost ELSE iv[1]
    /\ seoInitialValue = IF iv = <<>> THEN <<>> ELSE <<SeoOf(iv[1])>>
    /\ selectionRange = <<>>
    /\ uploading = FALSE
    /\ images = <<>>
    /\ doc = EmptyDoc
    /\ textSel = SelectionAtEnd(EmptyDoc)
    /\ fetch = "inflight"
    /\ uploads = <<>>
    /\ out = <<>>
    /\ tx = NoTx
    /\ lastChange = "none"
    /\ hydrated = FALSE
    /\ edited = FALSE
    /\ typed = 0
    /\ rangeSet = FALSE
    /\ rangeStale = FALSE

(***************************************************************************)
(* Rendering: the component function runs with the current state and the   *)
(* prop initialValue, then the effects whose dependencies changed run.     *)
(***************************************************************************)
\* Variant: the effect also depends on the draft, [editor, selectionRange, post].
SelectionDepsWithPost(s) == <<s.editor, s.selectionRange, s.post>>

\* [editor, selectionRange]
SelectionDeps(s) == <<s.editor, s.selectionRange>>

\* Variant: the dependency on editor is left out, [initialValue].
HydrationDepsInitialValueOnly(s) == <<s.initialValue>>

\* [initialValue, editor]
HydrationDeps(s) == <<s.initialValue, s.editor>>

\* Variant: only the start of the range is applied, setTextSelection(range.from).
SelectionEffectCaret(s, sel) ==
  IF s.editor /\ s.selectionRange /= <<>>
  THEN setTextSelection(doc, [from |-> s.selectionRange[1].from,
                              to |-> s.selectionRange[1].from])
  ELSE sel

\* if (editor && selectionRange) editor.commands.setTextSelection(selectionRange)
SelectionEffect(s, sel) ==
  IF s.editor /\ s.selectionRange /= <<>>
  THEN setTextSelection(doc, s.selectionRange[1])
  ELSE sel

RenderWith(iv) ==
  LET new == Snapshot(iv)
      selected == IF SelectionDeps(new) /= SelectionDeps(r) \/ rangeSet
                  THEN SelectionEffect(new, textSel) ELSE textSel
      hydrate == HydrationDeps(new) /= HydrationDeps(r) /\ iv /= <<>>
      arrived == <<iv, new.editor>> /= <<r.initialValue, r.editor>> /\ iv /= <<>>
  IN /\ r' = new
     /\ IF hydrate
        THEN /\ post' = iv[1]
             /\ IF new.editor
                THEN /\ doc' = setContent(iv[1].content)
                     /\ textSel' = SelectionAtEnd(doc')
                     /\ tx' = OneTx
                ELSE /\ textSel' = selected
                     /\ tx' = NoTx
                     /\ UNCHANGED doc
             /\ seoInitialValue' = <<SeoOf(iv[1])>>
        ELSE /\ textSel' = selected
             /\ tx' = NoTx
             /\ UNCHANGED <<post, doc, seoInitialValue>>
     /\ hydrated' = (hydrated \/ arrived)
     /\ edited' = (edited /\ ~arrived)
     /\ out' = <<>>
     /\ rangeSet' = FALSE
     /\ rangeStale' = (rangeStale \/ (selectionRange /= <<>> /\ hydrate /\ new.editor))
     /\ UNCHANGED <<selectionRange, uploading, images, fetch, uploads, lastChange, typed>>

\* A state update is pending: a state differs from what was rendered, or
\* setSelectionRange was given a new Range object (equal values or not).
RenderPending == Snapshot(r.initialValue) /= r \/ rangeSet

\* React renders again.
Render ==
  /\ RenderPending
  /\ RenderWith(r.initialValue)

\* The parent passes another initialValue: the component renders with it.
SetInitialValue(v) ==
  /\ <<v>> /= r.initialValue
  /\ RenderWith(<<v>>)

(***************************************************************************)
(* The asset coordinator: fetchImages and handleImageUpload.               *)
(***************************************************************************)
\* fetchImages, after the await: setImages(data.images)
FetchImagesOk(data) ==
  /\ fetch = "inflight"
  /\ fetch' = "ok"
  /\ images' = data
  /\ lastChange' = "fetch"
  /\ out' = <<>>
  /\ tx' = NoTx
  /\ UNCHANGED <<selectionRange, rangeSet, rangeStale, uploading, seoInitialValue, post, r, doc, textSel,
                 uploads, hydrated, edited, typed>>

\* Variant: the rejection is caught and the list is reset, setImages([]).
FetchImagesFailClears ==
  /\ fetch = "inflight"
  /\ fetch' = "failed"
  /\ images' = <<>>
  /\ lastChange' = "fetch"
  /\ out' = <<>>
  /\ tx' = NoTx
  /\ UNCHANGED <<selectionRange, rangeSet, rangeStale, uploading, seoInitialValue, post, r,
                 doc, textSel, uploads, hydrated, edited, typed>>

\* fetchImages, the GET rejects: the function ends at the await.
FetchImagesFail ==
  /\ fetch = "inflight"
  /\ fetch' = "failed"
  /\ out' = <<>>
  /\ tx' = NoTx
  /\ UNCHANGED <<selectionRange, rangeSet, rangeStale, uploading, images, seoInitialValue, post, r, doc,
                 textSel, uploads, lastChange, hydrated, edited, typed>>

InFlight == {i \in 1..Len(uploads) : uploads[i].status = "inflight"}

\* handleImageUpload(image) up to the await: setUploading(true), the POST is
\* sent; the continuation keeps the images of the render it was called from.
\* (seen records the value of the images state at that moment.)  Files are
\* interchangeable: the user picks them in the order of their numbers.
HandleImageUpload(image) ==
  /\ image = Len(uploads) + 1
  /\ uploading' = TRUE
  /\ uploads' = Append(uploads, [image |-> image, images |-> r.images, seen |-> images,
                                 status |-> "inflight"])
  /\ out' = <<>>
  /\ tx' = NoTx
  /\ UNCHANGED <<selectionRange, rangeSet, rangeStale, images, seoInitialValue, post, r, doc, textSel,
                 fetch, lastChange, hydrated, edited, typed>>

\* Variant: a successful upload also puts the new image into the Document.
UploadOkInserts(i) ==
  /\ i \in InFlight
  /\ uploads' = [uploads EXCEPT ![i].status = "ok"]
  /\ uploading' = FALSE
  /\ images' = <<Asset(uploads[i].image)>> \o uploads[i].images
  /\ lastChange' = "upload"
  /\ doc' = RunChain([doc |-> doc, sel |-> textSel],
                     <<Cmd("setImage", Asset(uploads[i].image).src, "")>>).doc
  /\ out' = <<>>
  /\ tx' = NoTx
  /\ UNCHANGED <<selectionRange, rangeSet, rangeStale, seoInitialValue, post, r, textSel,
                 fetch, hydrated, edited, typed>>

\* handleImageUpload after the await: setUploading(false);
\* setImages([data, ...images])
UploadOk(i) ==
  /\ i \in InFlight
  /\ uploads' = [uploads EXCEPT ![i].status = "ok"]
  /\ uploading' = FALSE
  /\ images' = <<Asset(uploads[i].image)>> \o uploads[i].images
  /\ lastChange' = "upload"
  /\ out' = <<>>
  /\ tx' = NoTx
  /\ UNCHANGED <<selectionRange, rangeSet, rangeStale, seoInitialValue, post, r, doc, textSel, fetch,
                 hydrated, edited, typed>>

\* Variant: the rejection is swallowed and the continuation runs without data.
UploadFailSwallowed(i) ==
  /\ i \in InFlight
  /\ uploads' = [uploads EXCEPT ![i].status = "failed"]
  /\ uploading' = FALSE
  /\ images' = <<[src |-> "undefined"]>> \o uploads[i].images
  /\ lastChange' = "upload"
  /\ out' = <<>>
  /\ tx' = NoTx
  /\ UNCHANGED <<selectionRange, rangeSet, rangeStale, seoInitialValue, post, r, doc, textSel, fetch,
                 hydrated, edited, typed>>

\* Variant: the rejection is caught and the same file is posted again.
UploadFailRetries(i) ==
  /\ i \in InFlight
  /\ uploads' = Append([uploads EXCEPT ![i].status = "failed"],
                        [uploads[i] EXCEPT !.status = "inflight"])
  /\ out' = <<>>
  /\ tx' = NoTx
  /\ UNCHANGED <<selectionRange, rangeSet, rangeStale, uploading, images, seoInitialValue,
                 post, r, doc, textSel, fetch, lastChange, hydrated, edited, typed>>

\* handleImageUpload, the POST rejects: the function ends at the await.
UploadFail(i) ==
  /\ i \in InFlight
  /\ uploads' = [uploads EXCEPT ![i].status = "failed"]
  /\ out' = <<>>
  /\ tx' = NoTx
  /\ UNCHANGED <<selectionRange, rangeSet, rangeStale, uploading, images, seoInitialValue, post, r, doc,
                 textSel, fetch, lastChange, hydrated, edited, typed>>

(***************************************************************************)
(* The metadata handlers.                                                  *)
(***************************************************************************)
SetPost(p) ==
  /\ post' = p
  /\ edited' = TRUE
  /\ out' = <<>>
  /\ tx' = NoTx
  /\ UNCHANGED <<selectionRange, rangeSet, rangeStale, uploading, images, seoInitialValue, r, doc, textSel,
                 fetch, uploads, lastChange, hydrated, typed>>

\* setPost({ ...post, title: target.value })
updateTitle(value) == SetPost([r.post EXCEPT !.title = value])

\* setPost({ ...post, ...result })
updateSeoValue(result) ==
  SetPost([r.post EXCEPT !.meta = result.meta, !.slug = result.slug, !.tags = result.tags])

\* setPost({ ...post, thumbnail: file })
updateThumbnail(file) == SetPost([r.post EXCEPT !.thumbnail = file])

(***************************************************************************)
(* The editor handlers.                                                    *)
(***************************************************************************)
GallerySrcs == {r.images[i].src : i \in 1..Len(r.images)}

\* Variant: focus and setImage are run as two chains.
ImageSelectTwoRuns(src, altText) ==
  IF r.editor
  THEN LET one == RunChain([doc |-> doc, sel |-> textSel], <<Cmd("focus", "", "")>>)
           two == RunChain([doc |-> one.doc, sel |-> one.sel],
                           <<Cmd("setImage", src, altText)>>)
       IN [doc |-> two.doc, sel |-> two.sel,
           tx |-> [chain |-> IF two.versions = 0 THEN "aborted" ELSE "applied",
                   versions |-> one.versions + two.versions]]
  ELSE [doc |-> doc, sel |-> textSel, tx |-> NoTx]

\* editor?.chain().focus().setImage({src, alt}).run()
ImageSelectChain(src, altText) ==
  IF r.editor
  THEN LET res == RunChain([doc |-> doc, sel |-> textSel],
                           <<Cmd("focus", "", ""), Cmd("setImage", src, altText)>>)
       IN [doc |-> res.doc, sel |-> res.sel,
           tx |-> [chain |-> IF res.versions = 0 THEN "aborted" ELSE "applied",
                   versions |-> res.versions]]
  ELSE [doc |-> doc, sel |-> textSel, tx |-> NoTx]

\* Variant: the chosen asset is taken out of the cached list.
handleImageSelectTakes(src, altText) ==
  /\ src \in GallerySrcs
  /\ ImageCount(doc) < MaxDocImages
  /\ LET res == ImageSelectChain(src, altText)
     IN /\ doc' = res.doc
        /\ textSel' = res.sel
        /\ tx' = res.tx
        /\ edited' = (edited \/ res.tx.versions > 0)
        /\ rangeStale' = (rangeStale \/ (selectionRange /= <<>> /\ res.tx.versions > 0))
  /\ images' = SelectSeq(images, LAMBDA a : a.src /= src)
  /\ out' = <<>>
  /\ UNCHANGED <<selectionRange, rangeSet, uploading, seoInitialValue, post, r, fetch,
                 uploads, lastChange, hydrated, typed>>

handleImageSelect(src, altText) ==
  /\ src \in GallerySrcs
  /\ ImageCount(doc) < MaxDocImages
  /\ LET res == ImageSelectChain(src, altText)
     IN /\ doc' = res.doc
        /\ textSel' = res.sel
        /\ tx' = res.tx
        /\ edited' = (edited \/ res.tx.versions > 0)
        /\ rangeStale' = (rangeStale \/ (selectionRange /= <<>> /\ res.tx.versions > 0))
  /\ out' = <<>>
  /\ UNCHANGED <<selectionRange, rangeSet, uploading, images, seoInitialValue, post, r, fetch,
                 uploads, lastChange, hydrated, typed>>

\* Variant: the draft is passed on as it is, content: post.content.
SubmitCallsStaleContent ==
  IF ~r.editor THEN <<>> ELSE <<r.post>>

\* Variant: the text of the Document is passed on, content: editor.getText(),
\* as one paragraph.
SubmitCallsText ==
  IF ~r.editor THEN <<>>
  ELSE <<[r.post EXCEPT !.content =
            <<Tok("p", "", "")>>
            \o SelectSeq(getHTML(doc), LAMBDA t : t.tag = "x")
            \o <<Tok("/p", "", "")>>]>>

\* if (!editor) return; onSubmit({ ...post, content: editor.getHTML() })
SubmitCalls ==
  IF ~r.editor THEN <<>> ELSE <<[r.post EXCEPT !.content = getHTML(doc)]>>

\* Variant: submit waits for the gallery upload to end.
handleSubmitWhenIdle ==
  /\ ~uploading
  /\ out' = SubmitCalls
  /\ tx' = NoTx
  /\ UNCHANGED <<selectionRange, rangeSet, rangeStale, uploading, images, seoInitialValue, post, r, doc,
                 textSel, fetch, uploads, lastChange, hydrated, edited, typed>>

handleSubmit ==
  /\ out' = SubmitCalls
  /\ tx' = NoTx
  /\ UNCHANGED <<selectionRange, rangeSet, rangeStale, uploading, images, seoInitialValue, post, r, doc,
                 textSel, fetch, uploads, lastChange, hydrated, edited, typed>>

\* Variant: setSelectionRange is called whatever getMarkRange returned.
ClickRangeUnconditional(pos) == getMarkRange(doc, pos)

\* Variant: the click also stores the serialized Document in the draft.
handleClickSavesContent(pos) ==
  /\ r.editor
  /\ selectionRange' = IF getMarkRange(doc, pos) /= <<>>
                       THEN getMarkRange(doc, pos) ELSE selectionRange
  /\ textSel' = [from |-> pos, to |-> pos]
  /\ rangeSet' = (rangeSet \/ getMarkRange(doc, pos) /= <<>>)
  /\ rangeStale' = (rangeStale /\ getMarkRange(doc, pos) = <<>>)
  /\ post' = [r.post EXCEPT !.content = getHTML(doc)]
  /\ out' = <<>>
  /\ tx' = NoTx
  /\ UNCHANGED <<uploading, images, seoInitialValue, r, doc, fetch, uploads,
                 lastChange, hydrated, edited, typed>>

\* editorProps.handleClick(view, pos): the click puts the caret at pos;
\* if (selectionRange) setSelectionRange(selectionRange)
ClickRange(pos) ==
  LET range == getMarkRange(doc, pos)
  IN IF range /= <<>> THEN range ELSE selectionRange

handleClick(pos) ==
  /\ r.editor
  /\ selectionRange' = ClickRange(pos)
  /\ rangeSet' = (rangeSet \/ getMarkRange(doc, pos) /= <<>>)
  /\ rangeStale' = (rangeStale /\ getMarkRange(doc, pos) = <<>>)
  /\ textSel' = [from |-> pos, to |-> pos]
  /\ out' = <<>>
  /\ tx' = NoTx
  /\ UNCHANGED <<uploading, images, seoInitialValue, post, r, doc, fetch, uploads,
                 lastChange, hydrated, edited, typed>>

\* <EditorContent>: the user types a character at the caret.
TypeText ==
  /\ r.editor
  /\ ResolveBlock(doc, textSel.from) /= 0
  /\ typed < MaxTyped
  /\ typed' = typed + 1
  /\ doc' = InsertText(doc, textSel.from)
  /\ textSel' = [from |-> textSel.from + 1, to |-> textSel.from + 1]
  /\ tx' = OneTx
  /\ edited' = TRUE
  /\ rangeStale' = (selectionRange /= <<>>)
  /\ out' = <<>>
  /\ UNCHANGED <<selectionRange, rangeSet, uploading, images, seoInitialValue, post, r, fetch,
                 uploads, lastChange, hydrated>>

Next ==
  \/ Render
  \/ \E v \in InitialValues : SetInitialValue(v)
  \/ \E data \in RemoteGalleries : FetchImagesOk(data)
  \/ FetchImagesFail
  \/ \E image \in Files : HandleImageUpload(image)
  \/ \E i \in 1..Len(uploads) : UploadOk(i)
  \/ \E i \in 1..Len(uploads) : UploadFail(i)
  \/ \E value \in Titles : updateTitle(value)
  \/ \E result \in SeoResults : updateSeoValue(result)
  \/ \E file \in Thumbnails : updateThumbnail(file)
  \/ \E src \in GallerySrcs, altText \in AltTexts : handleImageSelect(src, altText)
  \/ handleSubmit
  \/ \E pos \in 0..DocSize(doc) : handleClick(pos)
  \/ TypeText

Spec == Init /\ [][Next]_vars

(***************************************************************************)
(* Views of the component.  Each specification lets one workflow run in    *)
(* full and keeps of the others what the workflow shares state with.       *)
(***************************************************************************)
\* The gallery workflow, with editing going on beside it.
NextAssets ==
  \/ Render
  \/ \E data \in RemoteGalleries : FetchImagesOk(data)
  \/ FetchImagesFail
  \/ \E image \in Files : HandleImageUpload(image)
  \/ \E i \in 1..Len(uploads) : UploadOk(i)
  \/ \E i \in 1..Len(uploads) : UploadFail(i)
  \/ \E value \in Titles : updateTitle(value)
  \/ TypeText
  \/ handleSubmit

SpecAssets == Init /\ [][NextAssets]_vars

\* The post draft: hydration, the metadata handlers and submit.
NextDraft ==
  \/ Render
  \/ \E v \in InitialValues : SetInitialValue(v)
  \/ \E image \in Files : HandleImageUpload(image)
  \/ \E value \in Titles : updateTitle(value)
  \/ \E result \in SeoResults : updateSeoValue(result)
  \/ \E file \in Thumbnails : updateThumbnail(file)
  \/ handleSubmit
  \/ TypeText

SpecDraft == Init /\ [][NextDraft]_vars

\* The document: hydration, clicks and image insertion.
NextDoc ==
  \/ Render
  \/ \E data \in RemoteGalleries : FetchImagesOk(data)
  \/ \E value \in Titles : updateTitle(value)
  \/ \E src \in GallerySrcs, altText \in AltTexts : handleImageSelect(src, altText)
  \/ \E pos \in 0..DocSize(doc) : handleClick(pos)

SpecDoc == Init /\ [][NextDoc]_vars

\* Where the user clicks here: the start of the first block and a position
\* inside the link of either saved post.
ContentClicks == {1, 5}

\* The content: the Document is seeded, edited, and serialized on submit.
NextContent ==
  \/ Render
  \/ \E v \in InitialValues : SetInitialValue(v)
  \/ \E data \in RemoteGalleries : FetchImagesOk(data)
  \/ \E src \in GallerySrcs, altText \in AltTexts : handleImageSelect(src, altText)
  \/ \E pos \in ContentClicks \cap 0..DocSize(doc) : handleClick(pos)
  \/ TypeText
  \/ handleSubmit

SpecContent == Init /\ [][NextContent]_vars

\* Where the user clicks here: inside the link of either saved post.
SessionClicks == {5}

\* The whole session as React schedules it: the render that a state update
\* asks for, and its effects, run before the next event is handled.  The
\* user waits for an upload to end before picking the next file.
NextSession ==
  \/ Render
  \/ /\ ~RenderPending
     /\ \/ \E v \in InitialValues : SetInitialValue(v)
        \/ \E data \in RemoteGalleries : FetchImagesOk(data)
        \/ InFlight = {} /\ \E image \in Files : HandleImageUpload(image)
        \/ \E i \in 1..Len(uploads) : UploadOk(i)
        \/ \E value \in Titles : updateTitle(value)
        \/ \E src \in GallerySrcs, altText \in AltTexts : handleImageSelect(src, altText)
        \/ handleSubmit
        \/ \E pos \in SessionClicks \cap 0..DocSize(doc) : handleClick(pos)
        \/ TypeText

SpecSession == Init /\ [][NextSession]_vars

(***************************************************************************)
(* Properties of the gallery workflow (SpecAssets).                        *)
(***************************************************************************)
\* C1: asset cache ordering.  When an upload B, started from an up-to-date
\* render, succeeds right after another upload A succeeded (nothing else
\* assigned images in between), the cached list becomes
\* [assetB, assetA, ...previous].
C1_AssetCacheOrdering ==
  [][\A i \in 1..Len(uploads) :
       (UploadOk(i) /\ lastChange = "upload" /\ uploads[i].seen = uploads[i].images)
         => images' = <<Asset(uploads[i].image), Head(images)>> \o Tail(images)]_vars

\* C2: upload failure isolation.  The step in which a POST fails leaves the
\* cached images list, the Document and the post draft as they were.
C2_UploadFailureIsolation ==
  [][\A i \in 1..Len(uploads) :
       UploadFail(i) => /\ images' = images
                        /\ doc' = doc
                        /\ post' = post
                        /\ r'.post = r.post
                        /\ r'.images = r.images]_vars

\* C2 witness: an upload has failed while the list, the draft and the
\* Document all held something.
C2_Witness ==
  /\ \E i \in 1..Len(uploads) : uploads[i].status = "failed"
  /\ images /= <<>>
  /\ post.title = "X"
  /\ typed > 0

\* C3: uploading state.  While an upload is in flight the uploading flag is
\* true.
C3_UploadingWhileInFlight == InFlight /= {} => uploading

\* C13: no automatic retry.  A POST is sent only by the step in which the
\* user selects a file, one POST per selection; the step in which a POST
\* fails, and every other step, sends none.
C13_NoAutomaticRetry ==
  [][/\ Len(uploads') >= Len(uploads)
     /\ (\E image \in Files : HandleImageUpload(image))
          => /\ Len(uploads') = Len(uploads) + 1
             /\ InFlight' = InFlight \cup {Len(uploads')}
     /\ ~(\E image \in Files : HandleImageUpload(image))
          => /\ Len(uploads') = Len(uploads)
             /\ InFlight' \subseteq InFlight
     /\ \A i \in 1..Len(uploads) :
          UploadFail(i) => InFlight' = InFlight \ {i}]_vars

\* C13 witness: the only upload has failed, the component has rendered
\* since, and no request is in flight.
C13_Witness ==
  /\ Len(uploads) = 1
  /\ uploads[1].status = "failed"
  /\ InFlight = {}
  /\ ~RenderPending
  /\ r.editor

UploadsOk == {i \in 1..Len(uploads) : uploads[i].status = "ok"}

\* C14: list failure tolerance.  The step in which the GET fails leaves the
\* cached images list as it was, so that the list is empty afterwards unless
\* an upload succeeded; and after the failure typing, the title update, an
\* upload and submit are all enabled and take effect.
C14_ListFailureTolerance ==
  /\ [][FetchImagesFail => images' = images /\ r'.images = r.images]_vars
  /\ []((fetch = "failed" /\ UploadsOk = {}) => images = <<>>)
  /\ []((fetch = "failed" /\ r.editor) =>
          /\ ENABLED handleSubmit
          /\ \A value \in Titles : ENABLED updateTitle(value)
          /\ Len(uploads) < MaxUploads => ENABLED (\E image \in Files : HandleImageUpload(image))
          /\ (typed < MaxTyped /\ ResolveBlock(doc, textSel.from) /= 0) => ENABLED TypeText)
  /\ [][fetch = "failed" =>
          /\ (\A value \in Titles : updateTitle(value) => post'.title = value)
          /\ (TypeText => DocSize(doc') = DocSize(doc) + 1)
          /\ ((handleSubmit /\ r.editor) => Len(out') = 1 /\ out'[1].content = getHTML(doc))
          /\ ((\E image \in Files : HandleImageUpload(image))
                => Len(uploads') = Len(uploads) + 1 /\ uploading')]_vars

\* C14 witness: the GET failed after an upload had succeeded; the user then
\* typed, set the title and submitted, and another upload is in flight.
C14_Witness ==
  /\ fetch = "failed"
  /\ images = <<Asset(1)>>
  /\ typed > 0
  /\ r.post.title = "X"
  /\ out /= <<>>
  /\ InFlight /= {}

Pending == InFlight /= {} \/ fetch = "inflight"

\* C15: editing during upload.  While an upload or the list fetch is in
\* flight, typing and the title update are enabled and take effect, one
\* Document version per step at most; and the step in which an upload or
\* the fetch ends, well or not, leaves the Document and the post draft as
\* they were.
C15_EditingDuringUpload ==
  /\ []((Pending /\ r.editor) =>
          /\ \A value \in Titles : ENABLED updateTitle(value)
          /\ (typed < MaxTyped /\ ResolveBlock(doc, textSel.from) /= 0) => ENABLED TypeText)
  /\ [][Pending =>
          /\ (\A value \in Titles : updateTitle(value) => post'.title = value)
          /\ (TypeText => /\ DocSize(doc') = DocSize(doc) + 1
                          /\ getHTML(doc') /= getHTML(doc)
                          /\ tx'.versions = 1)]_vars
  /\ [][tx'.versions <= 1]_vars
  /\ [][(\/ \E i \in 1..Len(uploads) : UploadOk(i) \/ UploadFail(i)
         \/ \E data \in RemoteGalleries : FetchImagesOk(data)
         \/ FetchImagesFail)
          => /\ doc' = doc
             /\ textSel' = textSel
             /\ post' = post
             /\ r'.post = r.post]_vars

\* C15 witness: an upload has just succeeded while the Document and the
\* title carry edits not yet rendered and another upload is in flight.
C15_Witness ==
  /\ lastChange = "upload"
  /\ UploadsOk /= {}
  /\ InFlight /= {}
  /\ typed > 0
  /\ post.title = "X"
  /\ r.post.title = ""

Cached == {images[k] : k \in 1..Len(images)}

\* What the list fetch returned (the gallery answers with its one list).
Fetched ==
  IF fetch = "ok"
  THEN UNION {{data[k] : k \in 1..Len(data)} : data \in RemoteGalleries}
  ELSE {}

\* C18: no asset is lost.  Once the list fetch and every started upload
\* have completed, each upload having been started from an up-to-date
\* render, the cached images list holds every asset the fetch returned and
\* the asset of every successful upload.
C18_NoAssetLost ==
  (/\ fetch /= "inflight"
   /\ InFlight = {}
   /\ \A i \in 1..Len(uploads) : uploads[i].seen = uploads[i].images)
    => /\ Fetched \subseteq Cached
       /\ \A i \in UploadsOk : Asset(uploads[i].image) \in Cached

\* C19: the uploading flag is released.  Once every started upload has
\* received its response, well or not, uploading is false.
C19_UploadingReleased ==
  InFlight = {} => ~uploading

(***************************************************************************)
(* Properties of the post draft (SpecDraft).                               *)
(***************************************************************************)
MetaFields == {"title", "meta", "slug", "tags", "thumbnail", "content"}
SameExcept(p, q, fields) == \A f \in MetaFields \ fields : p[f] = q[f]

\* C4: metadata field isolation.  For a new post (no initialValue), each
\* update handler leaves every field it does not target as it was, whether
\* or not a render happened since the previous update.
C4_MetadataFieldIsolation ==
  [][r.initialValue = <<>> =>
       /\ (\E value \in Titles : updateTitle(value))
            => SameExcept(post', post, {"title"})
       /\ (\E result \in SeoResults : updateSeoValue(result))
            => SameExcept(post', post, {"meta", "slug", "tags"})
       /\ (\E file \in Thumbnails : updateThumbnail(file))
            => SameExcept(post', post, {"thumbnail"})]_vars

Hydrated(iv) ==
  [title |-> iv.title, content |-> getHTML(setContent(iv.content)),
   meta |-> iv.meta, slug |-> iv.slug, tags |-> iv.tags]
Emitted(p) ==
  [title |-> p.title, content |-> p.content, meta |-> p.meta, slug |-> p.slug,
   tags |-> p.tags]

\* C5: hydration.  Once a render has seen both the editor and the
\* initialValue (in either order of arrival) and the hydrated draft has been
\* rendered, a submit with no user edit in between emits the title, meta,
\* slug and tags of initialValue and the serialization of the Document seeded
\* from initialValue.content.
C5_Hydration ==
  [][(handleSubmit /\ hydrated /\ ~edited /\ r.post = post)
       => /\ Len(out') = 1
          /\ Emitted(out'[1]) = Hydrated(r.initialValue[1])]_vars

\* C5 witness: such a submit has just emitted the draft of the saved post
\* whose content is not in serialized form.
C5_Witness ==
  /\ out /= <<>>
  /\ hydrated /\ ~edited /\ r.post = post
  /\ out[1].title = "Yo"
  /\ out[1].content /= r.initialValue[1].content

\* C6: finalize composition.  A submit with an editor passes one draft whose
\* content is the serialization of the live Document and whose other fields
\* are those of the post draft the handler holds; with no initialValue and no
\* edits they are empty.  Without an editor nothing is emitted.
C6_FinalizeComposition ==
  [][handleSubmit =>
       IF r.editor
       THEN /\ Len(out') = 1
            /\ out'[1].content = getHTML(doc)
            /\ SameExcept(out'[1], r.post, {"content"})
            /\ (r.initialValue = <<>> /\ ~edited)
                 => SameExcept(out'[1], EmptyPost, {"content"})
       ELSE out' = <<>>]_vars

\* C6 witness: a submit has emitted an edited draft whose content differs
\* from the content field of the draft.
C6_Witness ==
  /\ out /= <<>>
  /\ out[1].title = "X"
  /\ out[1].content /= post.content
  /\ typed > 0

\* C7: finalize never blocks on uploads.  With an editor, submit is enabled
\* and makes exactly one onSubmit call, also while an upload is in flight and
\* while the thumbnail is a local File; the thumbnail is passed unchanged and
\* no request is started.
C7_FinalizeNeverBlocks ==
  /\ [](r.editor => ENABLED handleSubmit)
  /\ [][(handleSubmit /\ r.editor)
          => /\ Len(out') = 1
             /\ out'[1].thumbnail = r.post.thumbnail
             /\ uploads' = uploads
             /\ fetch' = fetch]_vars

\* C7 witness: a submit has emitted a draft with a local File as thumbnail
\* while an upload was in flight.
C7_Witness ==
  /\ out /= <<>>
  /\ out[1].thumbnail \in Thumbnails
  /\ InFlight /= {}
  /\ uploading

\* C20: hydration does not clobber edits.  With initialValue unchanged, a
\* render that follows a user edit of the draft or of the Document (made
\* after the hydration effect first ran) leaves the draft and the Document
\* as the edit left them, also when that render is the one in which the
\* editor becomes available.
C20_HydrationKeepsEdits ==
  [][(Render /\ r.initialValue /= <<>> /\ edited)
       => /\ post' = post
          /\ doc' = doc]_vars

(***************************************************************************)
(* Properties of the document (SpecDoc).                                   *)
(***************************************************************************)
\* The first paragraph carries a link over the positions [3,7).
HasLink37(d) ==
  /\ d[1].type = "paragraph"
  /\ Len(d[1].text) >= 7
  /\ \A i \in 3..6 : d[1].text[i] = "u"
  /\ d[1].text[2] /= "u"
  /\ d[1].text[7] /= "u"

\* pos lies where the link mark of the character before it differs from that
\* of the character after it.
AtMarkBoundary(d, pos) ==
  LET k == ResolveBlock(d, pos) IN
  /\ k /= 0
  /\ LET text == d[k].text
         off == pos - (BlockStart(d, k) + 1)
         left == IF off >= 1 THEN text[off] ELSE ""
         right == IF off < Len(text) THEN text[off + 1] ELSE ""
     IN left /= right

\* C8: range resolution boundary.  With a link over [3,7), a click at 3 or
\* at 7 resolves to no range and leaves selectionRange alone, a click at 5
\* sets it to {3,7}; a click at any mark boundary leaves selectionRange alone.
C8_RangeBoundary ==
  [][LET pos == textSel'.from IN
       handleClick(pos) =>
         /\ HasLink37(doc) =>
              /\ pos \in {3, 7} => (getMarkRange(doc, pos) = <<>>
                                    /\ selectionRange' = selectionRange)
              /\ pos = 5 => selectionRange' = <<[from |-> 3, to |-> 7]>>
         /\ AtMarkBoundary(doc, pos) => selectionRange' = selectionRange]_vars

\* C8 witness: a click at position 3 of such a Document set no range.
C8_Witness ==
  /\ HasLink37(doc)
  /\ textSel = [from |-> 3, to |-> 3]
  /\ selectionRange = <<>>

\* C9: resolver purity.  A click, and the selection effect of the render
\* that follows it, change neither the Document nor the post draft nor the
\* cached images list.
C9_ResolverPurity ==
  [][(handleClick(textSel'.from)
      \/ (Render /\ rangeSet))
       => /\ doc' = doc
          /\ post' = post
          /\ images' = images]_vars

\* C9 witness: a click inside the link has set selectionRange, the caret is
\* inside it, and the draft and the images list are not empty.
C9_Witness ==
  /\ selectionRange = <<[from |-> 3, to |-> 7]>>
  /\ textSel.from = textSel.to
  /\ textSel.from \in 4..6
  /\ post.title = "X"
  /\ images /= <<>>

\* C16: link click re-selection.  A click where the link range resolves to
\* r stores r in selectionRange and asks for a render, and that render sets
\* the editor's text selection to exactly r; a click where it resolves to
\* nothing leaves selectionRange as it was and asks for no render, and a
\* render made for another reason leaves the text selection alone.
C16_LinkClickReselection ==
  /\ [][LET pos == textSel'.from
            range == getMarkRange(doc, pos)
        IN handleClick(pos) =>
             IF range /= <<>>
             THEN /\ selectionRange' = range
                  /\ rangeSet'
             ELSE /\ selectionRange' = selectionRange
                  /\ rangeSet' = rangeSet]_vars
  /\ [](rangeSet => selectionRange /= <<>> /\ ENABLED Render)
  /\ [][(Render /\ r.editor) =>
          IF rangeSet
          THEN textSel' = [from |-> selectionRange[1].from, to |-> selectionRange[1].to]
          ELSE textSel' = textSel]_vars

\* C16 witness: the link range was stored by a click and the render has set
\* the text selection to it, in a Document that has changed since the
\* first click into the link.
C16_Witness ==
  /\ selectionRange /= <<>>
  /\ ~rangeSet
  /\ ~rangeStale
  /\ textSel = [from |-> selectionRange[1].from, to |-> selectionRange[1].to]
  /\ getMarkRange(doc, textSel.from + 1) = selectionRange
  /\ ImageCount(doc) > 0

SelectionInCodeBlock ==
  LET k == ResolveBlock(doc, textSel.from)
  IN k /= 0 /\ doc[k].type = "codeBlock"

\* C10: chain atomicity.  The focus + setImage chain of handleImageSelect
\* either violates the schema (the selection is in a code block) and leaves
\* the serialized Document as it was, or results in exactly one new Document
\* version.
C10_ChainAtomicity ==
  [][\A src \in GallerySrcs, altText \in AltTexts :
       (handleImageSelect(src, altText) /\ r.editor) =>
         IF SelectionInCodeBlock
         THEN /\ getHTML(doc') = getHTML(doc)
              /\ tx' = [chain |-> "aborted", versions |-> 0]
         ELSE /\ tx' = [chain |-> "applied", versions |-> 1]
              /\ getHTML(doc') /= getHTML(doc)]_vars

\* C10 witness: a chain was aborted with the selection in a code block.
C10_Witness ==
  /\ tx.chain = "aborted"
  /\ SelectionInCodeBlock

(***************************************************************************)
(* Properties of the whole session (SpecSession).                          *)
(***************************************************************************)
\* C12: asset cache ownership.  The cached images list is assigned only by
\* a completed list fetch or a successful upload: every other step (typing,
\* image insertion, click, title update, hydration, render, submit) leaves
\* images as it was.
C12_AssetCacheOwnership ==
  [][(\/ (\E data \in RemoteGalleries : FetchImagesOk(data))
      \/ (\E i \in 1..Len(uploads) : UploadOk(i)))
     \/ images' = images]_vars

\* C12 witness: the list holds a fetched and an uploaded asset and is what
\* was rendered, while the Document was typed into, holds an image taken
\* from the gallery, a link was clicked, the draft was hydrated and edited,
\* and a submit was made.
C12_Witness ==
  /\ Len(images) >= 2
  /\ r.images = images
  /\ typed > 0
  /\ ImageCount(doc) > 0
  /\ selectionRange /= <<>>
  /\ r.initialValue /= <<>>
  /\ post.title = "X"
  /\ out /= <<>>

\* The step is a render whose selection effect calls setTextSelection.
SelectionApplied ==
  /\ Render \/ \E v \in InitialValues : SetInitialValue(v)
  /\ r'.editor
  /\ selectionRange /= <<>>
  /\ SelectionDeps(r') /= SelectionDeps(r) \/ rangeSet

\* C17: no stale positions.  When the selection effect applies the stored
\* selectionRange, the Document has not changed (by typing, image insertion
\* or hydration) since the click that computed the range.
C17_NoStalePositions ==
  [][SelectionApplied => ~rangeStale]_vars

\* C17 witness: a range is stored, the Document was changed by typing and by
\* an image since it was computed, renders have happened since (the title
\* was set and rendered), and the text selection is not the stored range.
C17_Witness ==
  /\ selectionRange /= <<>>
  /\ rangeStale
  /\ typed > 0
  /\ ImageCount(doc) > 0
  /\ ~RenderPending
  /\ r.post.title = "X"
  /\ textSel /= [from |-> selectionRange[1].from, to |-> selectionRange[1].to]

(***************************************************************************)
(* Properties of the content (SpecContent).                                *)
(***************************************************************************)
\* C11: round-trip law.  Every Document the editor reaches (seeded by
\* hydration, typed into, images inserted) is the Document that setContent
\* builds from its serialization, and the content a submit emits seeds
\* exactly the Document it was taken from.
C11_RoundTrip ==
  /\ [](setContent(getHTML(doc)) = doc)
  /\ [][(handleSubmit /\ r.editor)
          => /\ Len(out') = 1
             /\ setContent(out'[1].content) = doc]_vars

\* C11 witness: a submit has emitted the content of a Document that holds a
\* link, a typed character and an image with src and alt.
C11_Witness ==
  /\ out /= <<>>
  /\ setContent(out[1].content) = doc
  /\ typed > 0
  /\ \E k \in 1..Len(doc) : doc[k].type = "image" /\ doc[k].src = "g.png"
                                /\ doc[k].alt = "alt"
  /\ \E k \in 1..Len(doc) : \E i \in 1..Len(doc[k].text) : doc[k].text[i] /= ""

====
